---------------------------- MODULE Spec2Model ----------------------------
(* Model of WavelengthCalibrationTool/recalibrate.py: the Legendre          *)
(* coefficient transform (LCTransformMatrixP, TransformLegendreCoeffs),     *)
(* the default-parameter override (update_coeffs_with_defaults), the two    *)
(* objective functions (transformed_spectrum, errorfunc_tominimise) and the *)
(* fit driver ReCalibrateDispersionSolution.                                *)
(*                                                                          *)
(* Numbers.  Coefficients, shifts and coordinates are integers.  The only   *)
(* irrational quantity of the code is the renormalisation factor            *)
(* Original_norm / norm(T_LC) of TransformLegendreCoeffs; a coefficient     *)
(* vector is therefore held as a record                                     *)
(*     [raised, nan, vec, num, den]   standing for  vec * sqrt(num / den)   *)
(* with num, den the squared norms the code divides, nan the IEEE result    *)
(* of 0/0, and raised the exception of a missing dictionary key.            *)
EXTENDS Integers, Sequences, FiniteSets, TLC

\* ------------------------------------------------------------------------
\* Bounds of the model
\* ------------------------------------------------------------------------
MaxLen == 3      \* longest Legendre coefficient vector under SpecLC
MaxTrials == 1   \* objective evaluations the optimizer makes after the one at p0
MaxCalls == 2    \* fit calls in one run of the caller

CoefVals == {-1, 0, 1}     \* values of a Legendre coefficient (SpecLC)
ShiftVals == {-1, 0, 1}    \* values of p, v, w (SpecLC)
ParamVals == {0, 1}        \* values the optimizer tries for each shift parameter
FluxVals == {1}            \* values the optimizer tries for the flux scale
Roles == {"p", "v", "w"}

\* ------------------------------------------------------------------------
\* Small arithmetic helpers (numpy primitives)
\* ------------------------------------------------------------------------
RECURSIVE SumTo(_, _)
SumTo(f, n) == IF n = 0 THEN 0 ELSE f[n] + SumTo(f, n - 1)

\* np.linalg.norm(x)**2 of a 1-D vector
NormSq(x) == SumTo([i \in 1..Len(x) |-> x[i] * x[i]], Len(x))

\* Python's range(start, stop, step) as a set, step > 0
PyRange(start, stop, step) == {k \in start..(stop - 1) : (k - start) % step = 0}

\* ------------------------------------------------------------------------
\* LCTransformMatrixP: rows and columns are indexed 0..deg as in the code
\* ------------------------------------------------------------------------
\* variant filling every column above the diagonal (range step 1); C7 must tell it apart
LCTransformMatrixP_allabove(p, deg) ==
    [i \in 0..deg |-> [j \in 0..deg |->
        IF j \in PyRange(i + 1, deg + 1, 1) THEN p * (i * 2 + 1)
        ELSE IF i = j THEN 1 ELSE 0]]

LCTransformMatrixP(p, deg) ==
    [i \in 0..deg |-> [j \in 0..deg |->
        IF j \in PyRange(i + 1, deg + 1, 2) THEN p * (i * 2 + 1)
        ELSE IF i = j THEN 1 ELSE 0]]          \* np.identity(deg+1)

\* np.matmul(TM, T): T is a sequence 1..n holding element i of the code at i+1
MatVec(TM, T) ==
    [i \in 1..Len(T) |->
        SumTo([j \in 1..Len(T) |-> TM[i - 1][j - 1] * T[j]], Len(T))]

\* ------------------------------------------------------------------------
\* Coefficient vectors with a renormalisation factor
\* ------------------------------------------------------------------------
CV(vec, num, den) == [raised |-> "none", nan |-> FALSE, vec |-> vec, num |-> num, den |-> den]
NaNCV(vec) == [raised |-> "none", nan |-> TRUE, vec |-> vec, num |-> 1, den |-> 1]
KeyErrorCV == [raised |-> "KeyError", nan |-> FALSE, vec |-> <<>>, num |-> 1, den |-> 1]

\* T_LC /= np.linalg.norm(T_LC)/Original_norm in IEEE arithmetic:
\*   0/0 is nan and x/nan is nan; n/0 is inf and x/inf is 0.
Renormalise(T, Original_normsq) ==
    IF NormSq(T) = 0 THEN NaNCV(T)
    ELSE IF Original_normsq = 0 THEN CV([i \in 1..Len(T) |-> 0], 1, 1)
    ELSE CV(T, Original_normsq, NormSq(T))

\* variant taking Original_norm after the pixel shift; C8 must tell it apart
PixelTransformed_normAfterShift(LC, PVWdic, normP) ==
    LET ldeg == Len(LC) - 1
        w == [i \in 1..(ldeg + 1) |-> IF i = 1 THEN PVWdic["w"] ELSE 0]
        T_LC == [i \in 1..(ldeg + 1) |-> LC[i] + w[i]]
        TM_pix == LCTransformMatrixP(PVWdic["p"], ldeg)
        P_LC == MatVec(TM_pix, T_LC)
    IN  IF normP THEN Renormalise(P_LC, NormSq(P_LC)) ELSE CV(P_LC, 1, 1)

\* Lines 46-57: wavelength shift, pixel shift and the optional rescale
PixelTransformed(LC, PVWdic, normP) ==
    LET ldeg == Len(LC) - 1
        w == [i \in 1..(ldeg + 1) |-> IF i = 1 THEN PVWdic["w"] ELSE 0]
        T_LC == [i \in 1..(ldeg + 1) |-> LC[i] + w[i]]       \* Wavl shift
        TM_pix == LCTransformMatrixP(PVWdic["p"], ldeg)
        Original_normsq == NormSq(T_LC)
        P_LC == MatVec(TM_pix, T_LC)                          \* Pixel shift
    IN  IF normP THEN Renormalise(P_LC, Original_normsq) ELSE CV(P_LC, 1, 1)

\* Lines 38-62.  PVWdic['w'], ['p'], ['v'] raise KeyError when absent.
TransformLegendreCoeffs(LC, PVWdic, normP) ==
    IF ~(Roles \subseteq DOMAIN PVWdic) THEN KeyErrorCV
    ELSE LET T == PixelTransformed(LC, PVWdic, normP)
             v == PVWdic["v"]
         IN  [T EXCEPT !.vec = [i \in 1..Len(T.vec) |-> T.vec[i] * (1 + v)]]

\* ------------------------------------------------------------------------
\* Python strings, lists and dictionaries
\* ------------------------------------------------------------------------
Digits == {"0", "1", "2", "3", "4", "5", "6", "7", "8", "9"}

DigitVal(ch) ==
    CASE ch = "0" -> 0 [] ch = "1" -> 1 [] ch = "2" -> 2 [] ch = "3" -> 3
      [] ch = "4" -> 4 [] ch = "5" -> 5 [] ch = "6" -> 6 [] ch = "7" -> 7
      [] ch = "8" -> 8 [] ch = "9" -> 9

\* str.isdigit(): every character a digit and at least one character
isdigit(s) == Len(s) > 0 /\ \A i \in 1..Len(s) : s[i] \in Digits

IsDigitChar(ch) == ch \in Digits
NotDigitChar(ch) == ch \notin Digits

\* int(s) of a non-empty digit string
RECURSIVE int(_)
int(s) ==
    IF Len(s) = 1 THEN DigitVal(s[1])
    ELSE 10 * int(SubSeq(s, 1, Len(s) - 1)) + DigitVal(s[Len(s)])

\* d[k] = v on a dictionary held as a function
DictSet(d, k, v) == [x \in DOMAIN d \cup {k} |-> IF x = k THEN v ELSE d[x]]

EmptyDict == [x \in {} |-> 0]

\* sorted(d.keys()) for integer keys
RECURSIVE SortedSeq(_)
SortedSeq(S) ==
    IF S = {} THEN <<>>
    ELSE LET m == CHOOSE x \in S : \A y \in S : x <= y
         IN  <<m>> \o SortedSeq(S \ {m})

\* ------------------------------------------------------------------------
\* update_coeffs_with_defaults (lines 64-81).  coeffs[key] with key >= 0 is
\* element key+1 of the sequence; a negative key counts from the end.
\* ------------------------------------------------------------------------
RECURSIVE UpdateKeys(_, _, _)
UpdateKeys(coeffs, defaultParamDic, keys) ==
    IF keys = <<>> THEN [raised |-> "none", coeffs |-> coeffs]
    ELSE LET key == Head(keys)
             n == Len(coeffs)
         IN  IF key >= 0 /\ key < n
             THEN UpdateKeys([coeffs EXCEPT ![key + 1] = defaultParamDic[key]],
                             defaultParamDic, Tail(keys))
             ELSE IF key < 0 /\ -key <= n
             THEN UpdateKeys([coeffs EXCEPT ![n + key + 1] = defaultParamDic[key]],
                             defaultParamDic, Tail(keys))
             ELSE IF n = key                      \* except IndexError: append
             THEN UpdateKeys(Append(coeffs, defaultParamDic[key]),
                             defaultParamDic, Tail(keys))
             ELSE [raised |-> "IndexError", coeffs |-> coeffs]

\* hasDic is FALSE for defaultParamDic=None; an empty dictionary is falsy too
update_coeffs_with_defaults(coeffs, hasDic, defaultParamDic) ==
    IF hasDic /\ DOMAIN defaultParamDic # {}
    THEN UpdateKeys(coeffs, defaultParamDic, SortedSeq(DOMAIN defaultParamDic))
    ELSE [raised |-> "none", coeffs |-> coeffs]

\* ------------------------------------------------------------------------
\* The spectra.  The reference wavelengths are linear in the pixel; the
\* model follows the first and the last pixel of every per-pixel array
\* (the ends of the spline's domain), where the normalised grid
\* np.linspace(-1,1,N) is -1 and +1.
\* ------------------------------------------------------------------------
RefWavl == <<2, 3, 4, 5, 6>>      \* RefSpectrum[:,0]
RefFlux == <<3, 1, 4, 1, 5>>      \* RefSpectrum[:,1]
speed_of_light == 299792458

Ends(a) == <<a[1], a[Len(a)]>>
min(a) == CHOOSE x \in {a[i] : i \in 1..Len(a)} : \A i \in 1..Len(a) : x <= a[i]
max(a) == CHOOSE x \in {a[i] : i \in 1..Len(a)} : \A i \in 1..Len(a) : x >= a[i]

\* np.linspace(-1,1,len(RefWavl)) at the two ends
grid == <<-1, 1>>

\* np.gradient(a) at the two ends: the one-sided differences
gradient(a) == <<a[2] - a[1], a[Len(a)] - a[Len(a) - 1]>>

\* scale_interval_m1top1 (lines 23-28); the divisions are exact on the
\* coordinates of the model
scale_interval_m1top1(x, a, b, inverse_scale) ==
    IF inverse_scale THEN ((b - a) * x + a + b) \div 2
    ELSE (2 * x - (b + a)) \div (b - a)

\* np.polynomial.legendre.legfit(grid, RefWavl, deg) for wavelengths linear
\* in the pixel: the least-squares fit is exact, c0 the mean, c1 the half
\* range and every higher coefficient 0
legfit(wavl, deg) ==
    [i \in 1..(deg + 1) |->
        IF i = 1 THEN (min(wavl) + max(wavl)) \div 2
        ELSE IF i = 2 THEN (max(wavl) - min(wavl)) \div 2 ELSE 0]

\* ------------------------------------------------------------------------
\* Coordinates: [nan, val, fnum, den, rn, rd] stands for
\* (val + fnum/den) * sqrt(rn/rd).  The fraction holds the v/c term of the
\* velocity models (den the speed of light); the square root holds the
\* renormalisation factor of the Legendre models (fnum = 0 there).
\* ------------------------------------------------------------------------
Coord(val, fnum, den) ==
    [nan |-> FALSE, val |-> val, fnum |-> fnum, den |-> den, rn |-> 1, rd |-> 1]

\* np.polynomial.polynomial.polyval(x, c) for a non-empty c
RECURSIVE polyval(_, _)
polyval(x, c) ==
    IF Len(c) = 1 THEN c[1] ELSE c[1] + x * polyval(x, Tail(c))

\* np.polynomial.chebyshev.chebval(x, c): Clenshaw recursion, as in numpy
RECURSIVE ChebLoop(_, _, _, _, _)
ChebLoop(x, c, i, c0, c1) ==
    IF i > Len(c) THEN c0 + c1 * x
    ELSE ChebLoop(x, c, i + 1, c[Len(c) - i + 1] - c1, c0 + c1 * 2 * x)

chebval(x, c) ==
    IF Len(c) = 1 THEN c[1]
    ELSE IF Len(c) = 2 THEN c[1] + c[2] * x
    ELSE ChebLoop(x, c, 3, c[Len(c) - 1], c[Len(c)])

\* Legendre polynomial P_n(x) by Bonnet's recursion; the division is exact
\* at x = -1 and x = +1, the grid points of the model
RECURSIVE LegendreP(_, _)
LegendreP(n, x) ==
    IF n = 0 THEN 1
    ELSE IF n = 1 THEN x
    ELSE ((2 * n - 1) * x * LegendreP(n - 1, x) - (n - 1) * LegendreP(n - 2, x)) \div n

\* np.polynomial.legendre.legval(x, c) of an integer vector
legvalInt(x, c) == SumTo([n \in 1..Len(c) |-> c[n] * LegendreP(n - 1, x)], Len(c))

\* legval(grid, LCnew) of a coefficient vector with its factor
legval(g, LCnew) ==
    [i \in 1..Len(g) |->
        [nan |-> LCnew.nan, val |-> legvalInt(g[i], LCnew.vec), fnum |-> 0, den |-> 1,
         rn |-> LCnew.num, rd |-> LCnew.den]]

\* x > b and x < a for a coordinate x and integers a, b
Above(x, b) ==
    IF x.rn = x.rd
    THEN LET whole == x.val + (x.fnum \div x.den)
         IN  whole > b \/ (whole = b /\ x.fnum % x.den > 0)
    ELSE IF x.val >= 0
         THEN b < 0 \/ x.val * x.val * x.rn > b * b * x.rd
         ELSE b < 0 /\ x.val * x.val * x.rn < b * b * x.rd

Below(x, a) ==
    IF x.rn = x.rd
    THEN x.val + (x.fnum \div x.den) < a
    ELSE IF x.val >= 0
         THEN a > 0 /\ x.val * x.val * x.rn < a * a * x.rd
         ELSE a >= 0 \/ x.val * x.val * x.rn > a * a * x.rd

\* ------------------------------------------------------------------------
\* interp.splrep(Xoriginal, scaledFlux) followed by interp.splev(X, tck, ext).
\* Inside the domain the result is the spline's value there; outside it
\* ext=3 returns the boundary value and ext=0 (the default) the value of
\* the end polynomial continued beyond the domain.
\* ------------------------------------------------------------------------
splev(x, Xoriginal, scaledFlux, ext) ==
    IF x.nan THEN [kind |-> "nan", at |-> x, value |-> 0]
    ELSE IF Below(x, Xoriginal[1])
    THEN IF ext = 3 THEN [kind |-> "boundary", at |-> x, value |-> scaledFlux[1]]
         ELSE [kind |-> "extrapolated", at |-> x, value |-> 0]
    ELSE IF Above(x, Xoriginal[2])
    THEN IF ext = 3 THEN [kind |-> "boundary", at |-> x, value |-> scaledFlux[2]]
         ELSE [kind |-> "extrapolated", at |-> x, value |-> 0]
    ELSE [kind |-> "spline", at |-> x, value |-> 0]

\* lines 132-133: interp.splev(Xtransformed, tck, ext=3)
Resample_transformed_spectrum(Xtransformed, Xoriginal, scaledFlux) ==
    [i \in 1..Len(Xtransformed) |-> splev(Xtransformed[i], Xoriginal, scaledFlux, 3)]

\* lines 177-178: interp.splev(Xtransformed, tck)
Resample_errorfunc(Xtransformed, Xoriginal, scaledFlux) ==
    [i \in 1..Len(Xtransformed) |-> splev(Xtransformed[i], Xoriginal, scaledFlux, 0)]

\* ------------------------------------------------------------------------
\* One evaluation of an objective function
\* ------------------------------------------------------------------------
EvalRec(raised, params, coeffs, pvw, normP, Xt, flux) ==
    [raised |-> raised, params |-> params, coeffs |-> coeffs, pvw |-> pvw,
     normP |-> normP, Xtransformed |-> Xt, flux |-> flux]

NoEval == EvalRec("unevaluated", <<>>, <<>>, EmptyDict, FALSE, <<>>, <<>>)

\* lines 109-126: the coordinate transform of transformed_spectrum for the
\* effective coefficients; "IndexError" where numpy or the tuple raises it
CoordTransform(method, Xoriginal, coeffs) ==
    LET Raise == [raised |-> "IndexError", X |-> <<>>]
        Ok(X) == [raised |-> "none", X |-> X]
    IN  CASE method = "p" ->
               IF Len(coeffs) = 0 THEN Raise
               ELSE Ok([i \in 1..2 |-> Coord(polyval(Xoriginal[i], coeffs), 0, 1)])
          [] method = "c" ->
               IF Len(coeffs) = 0 THEN Raise
               ELSE Ok([i \in 1..2 |-> Coord(chebval(Xoriginal[i], coeffs), 0, 1)])
          [] method = "v" ->                                     \* coeffs[0]
               IF Len(coeffs) < 1 THEN Raise
               ELSE Ok([i \in 1..2 |->
                       Coord(Xoriginal[i], Xoriginal[i] * coeffs[1], speed_of_light)])
          [] method = "x" ->                                     \* coeffs[0], coeffs[1]
               IF Len(coeffs) < 2 THEN Raise
               ELSE Ok([i \in 1..2 |->
                       Coord(Xoriginal[i] + coeffs[2] * gradient(RefWavl)[i],
                             Xoriginal[i] * coeffs[1], speed_of_light)])

\* transformed_spectrum (lines 83-133), called with method, WavlCoords and
\* defaultParamDic as the driver's partial() binds them
transformed_spectrum(FluxSpec, params, method, WavlCoords, hasDic, defaultParamDic) ==
    LET scaledFlux == [i \in 1..2 |-> FluxSpec[i] * params[1]]
        rest == Tail(params)                                   \* params[1:]
        coeffs0 == IF Len(rest) = 1 THEN Append(rest, 1) ELSE rest
        upd == update_coeffs_with_defaults(coeffs0, hasDic, defaultParamDic)
        Xt == CoordTransform(method, WavlCoords, upd.coeffs)
    IN  IF upd.raised # "none"
        THEN EvalRec(upd.raised, params, upd.coeffs, EmptyDict, FALSE, <<>>, <<>>)
        ELSE IF Xt.raised # "none"
        THEN EvalRec(Xt.raised, params, upd.coeffs, EmptyDict, FALSE, <<>>, <<>>)
        ELSE EvalRec("none", params, upd.coeffs, EmptyDict, FALSE, Xt.X,
                     Resample_transformed_spectrum(Xt.X, WavlCoords, scaledFlux))

\* for i,s in enumerate(paramstring): PVWdic[s] = params[i+1]
RECURSIVE MergeRoles(_, _, _, _)
MergeRoles(PVWdic, paramstring, params, i) ==
    IF i > Len(paramstring) THEN PVWdic
    ELSE MergeRoles(DictSet(PVWdic, paramstring[i], params[i + 1]),
                    paramstring, params, i + 1)

InSeq(x, s) == \E i \in 1..Len(s) : s[i] = x

\* variant switching the rescale on when either role is fitted; C5 must tell it apart
normP_objective_either(paramstring) == InSeq("p", paramstring) \/ InSeq("v", paramstring)

\* lines 166-168 of errorfunc_tominimise
normP_objective(paramstring) == InSeq("p", paramstring) /\ InSeq("v", paramstring)

\* lines 338-340 of ReCalibrateDispersionSolution
normP_driver(paramstring) == InSeq("p", paramstring) /\ InSeq("v", paramstring)

\* errorfunc_tominimise (lines 136-181) as the driver binds it: method='l',
\* WavlCoords=RefWavl, LCRef given, defaultParamDic the driver's PVWdic (never
\* None).  Returns the evaluation and the dictionary object as it leaves it.
errorfunc_tominimise(params, paramstring, LCRef, defaultParamDic) ==
    LET scaledFlux == [i \in 1..2 |-> Ends(RefFlux)[i] * params[1]]
        Xoriginal == Ends(RefWavl)
        PVWdic == MergeRoles(defaultParamDic, paramstring, params, 1)
        normP == normP_objective(paramstring)
        LCnew == TransformLegendreCoeffs(LCRef, PVWdic, normP)
        Xt == legval(grid, LCnew)
    IN  [dic |-> PVWdic,
         ev |-> IF LCnew.raised # "none"
                THEN EvalRec(LCnew.raised, params, <<>>, PVWdic, normP, <<>>, <<>>)
                ELSE EvalRec("none", params, LCnew.vec, PVWdic, normP, Xt,
                             Resample_errorfunc(Xt, Xoriginal, scaledFlux))]

\* ------------------------------------------------------------------------
\* ReCalibrateDispersionSolution, up to the call of the optimizer
\* (lines 215-237, 250-262, 275-283, 288-296, 302-328, 345-346)
\* ------------------------------------------------------------------------
\* Initp and x_scaledic.  The start values 1e-6 and 1e-3 lie below the
\* integer grid of the model and are held as 0; the optimizer's scale hints
\* do not enter the model beyond their number.
InitpKeys == {"v", "p", "w"}
Initp == [s \in InitpKeys |-> 0]
x_scaledicKeys == {"v", "p", "w"}

Prep(err, invoked, family, optimizer, p0, deg, paramstring, LCRef) ==
    [err |-> err, invoked |-> invoked, family |-> family, optimizer |-> optimizer,
     p0 |-> p0, deg |-> deg, paramstring |-> paramstring, LCRef |-> LCRef]

PrepError(err, family) == Prep(err, FALSE, family, "none", <<>>, 0, <<>>, <<>>)

DefaultPoly(deg) == IF deg > 0 THEN <<1, 0, 1>> \o [i \in 1..(deg - 1) |-> 0] ELSE <<1, 0>>

\* lines 302-328
PrepareLegendre(c) ==
    LET rest == Tail(c.method)                                  \* method[1:]
        paramstring == SelectSeq(rest, NotDigitChar)
        digits == SelectSeq(rest, IsDigitChar)
    IN  IF digits = <<>> THEN PrepError("ValueError", "l")      \* int('')
        ELSE LET ldeg == int(digits)
                 LCRef == legfit(RefWavl, ldeg)
             IN  IF ~c.hasGuess /\ \E i \in 1..Len(paramstring) : paramstring[i] \notin InitpKeys
                 THEN PrepError("KeyError", "l")                \* Initp[s]
                 ELSE IF \E i \in 1..Len(paramstring) : paramstring[i] \notin x_scaledicKeys
                 THEN PrepError("KeyError", "l")                \* x_scaledic[s]
                 ELSE LET p0 == IF c.hasGuess THEN c.initial_guess
                                ELSE <<1>> \o [i \in 1..Len(paramstring) |-> Initp[paramstring[i]]]
                      IN  \* least_squares checks x_scale against x0 before it
                          \* evaluates the objective
                          IF Len(p0) # 1 + Len(paramstring)
                          THEN Prep("ValueError", TRUE, "l", "least_squares", p0, ldeg,
                                    paramstring, LCRef)
                          ELSE Prep("none", TRUE, "l", "least_squares", p0, ldeg,
                                    paramstring, LCRef)

\* the if/elif chain of lines 225-346
Prepare(c) ==
    IF c.method = <<>> THEN PrepError("IndexError", "none")     \* method[0]
    ELSE LET m0 == c.method[1]
             rest == Tail(c.method)
         IN  IF m0 = "p" /\ isdigit(rest)
             THEN Prep("none", TRUE, "p", "curve_fit",
                       IF c.hasGuess THEN c.initial_guess ELSE DefaultPoly(int(rest)),
                       int(rest), <<>>, <<>>)
             ELSE IF m0 = "c" /\ isdigit(rest)
             THEN Prep("none", TRUE, "c", "curve_fit",
                       IF c.hasGuess THEN c.initial_guess ELSE DefaultPoly(int(rest)),
                       int(rest), <<>>, <<>>)
             ELSE IF m0 = "v"
             THEN Prep("none", TRUE, "v", "curve_fit",
                       IF c.hasGuess THEN c.initial_guess ELSE <<1, 100>>, 0, <<>>, <<>>)
             ELSE IF m0 = "x"
             THEN Prep("none", TRUE, "x", "curve_fit",
                       IF c.hasGuess THEN c.initial_guess ELSE <<1, 100, 0>>, 0, <<>>, <<>>)
             ELSE IF m0 = "l" THEN PrepareLegendre(c)
             ELSE PrepError("NotImplementedError", "none")

\* lines 219-223: the coordinates handed to the objective
scaledWavl(c) ==
    IF c.scalepixel
    THEN [i \in 1..2 |-> scale_interval_m1top1(Ends(RefWavl)[i], min(RefWavl), max(RefWavl), FALSE)]
    ELSE Ends(RefWavl)

FitCoords(c, family) == IF family \in {"p", "c"} THEN scaledWavl(c) ELSE Ends(RefWavl)

\* ------------------------------------------------------------------------
\* ReCalibrateDispersionSolution after the optimizer has returned
\* ------------------------------------------------------------------------
Ret(outcome, err, fields, popt, pcov, wavl_sln, recon) ==
    [outcome |-> outcome, err |-> err, fields |-> fields, popt |-> popt,
     pcov |-> pcov, wavl_sln |-> wavl_sln, recon |-> recon]

Recon(coeffs, pvw, normP, LCnew) ==
    [coeffs |-> coeffs, pvw |-> pvw, normP |-> normP, LCnew |-> LCnew]

NoRecon == Recon(<<>>, EmptyDict, FALSE, KeyErrorCV)
NoPcov == [n |-> 0]                     \* no covariance matrix in the result
NoRet == Ret("none", "none", <<>>, <<>>, NoPcov, <<>>, NoRecon)
Raised(err) == Ret("error", err, <<>>, <<>>, NoPcov, <<>>, NoRecon)

\* lines 356-359: the tuple handed back
ReturnFields(cov) ==
    IF cov THEN <<"wavl_sln", "popt", "pcov">> ELSE <<"wavl_sln", "popt">>

\* utils.calculate_cov_matrix_fromscipylsq: takes the fit result and returns
\* a covariance matrix, one row and column per parameter; the matrix is
\* held by its size
calculate_cov_matrix_fromscipylsq(fitoutput) == [n |-> Len(fitoutput.x)]

\* the pcov of popt, pcov = optimize.curve_fit(...): one row and column per
\* entry of p0
curve_fit_pcov(p0) == [n |-> Len(p0)]

\* lines 238-248 and 263-273 (polynomial, Chebyshev) with 348-354
ReconstructPoly(c, family, deg, popt0) ==
    LET popt == IF deg < 1 THEN Append(popt0, 1) ELSE popt0     \* append slope 1
        upd == update_coeffs_with_defaults(Tail(popt), c.passMap, c.defaultParamDic)
        X == scaledWavl(c)
        coeffs == upd.coeffs
        \* coeffs = popt[1:] is a view of popt: an override of an existing
        \* element is written into popt itself, an appended one is not
        poptOut == [i \in 1..Len(popt) |-> IF i = 1 THEN popt[1] ELSE coeffs[i - 1]]
        transformed_scaledWavl ==
            [i \in 1..2 |-> IF family = "p" THEN polyval(X[i], coeffs)
                            ELSE chebval(X[i], coeffs)]
        wavl_sln ==
            [i \in 1..2 |->
                IF c.scalepixel
                THEN Coord(scale_interval_m1top1(transformed_scaledWavl[i],
                                                 min(RefWavl), max(RefWavl), TRUE), 0, 1)
                ELSE Coord(transformed_scaledWavl[i], 0, 1)]
    IN  IF upd.raised # "none" THEN Raised(upd.raised)
        ELSE IF Len(coeffs) = 0 THEN Raised("IndexError")
        ELSE Ret("returned", "none", ReturnFields(c.cov), poptOut,
                 IF c.cov THEN curve_fit_pcov(popt0) ELSE NoPcov, wavl_sln,
                 Recon(coeffs, EmptyDict, FALSE, KeyErrorCV))

\* line 286
ReconstructV(c, popt) ==
    IF Len(popt) < 2 THEN Raised("IndexError")                  \* popt[1]
    ELSE Ret("returned", "none", ReturnFields(c.cov), popt,
             IF c.cov THEN curve_fit_pcov(popt) ELSE NoPcov,
             [i \in 1..2 |-> Coord(Ends(RefWavl)[i], Ends(RefWavl)[i] * popt[2],
                                   speed_of_light)],
             Recon(<<popt[2]>>, EmptyDict, FALSE, KeyErrorCV))

\* line 299
ReconstructX(c, popt) ==
    IF Len(popt) < 3 THEN Raised("IndexError")                  \* popt[2]
    ELSE Ret("returned", "none", ReturnFields(c.cov), popt,
             IF c.cov THEN curve_fit_pcov(popt) ELSE NoPcov,
             [i \in 1..2 |-> Coord(Ends(RefWavl)[i] + popt[3] * gradient(RefWavl)[i],
                                   Ends(RefWavl)[i] * popt[2], speed_of_light)],
             Recon(<<popt[2], popt[3]>>, EmptyDict, FALSE, KeyErrorCV))

\* variant leaving the dictionary as the optimizer left it; C4 must tell it apart
driver_merge_skipped(PVWdic, paramstring, popt) == PVWdic

\* lines 335-336: for i,s in enumerate(paramstring): PVWdic[s] = popt[i+1]
driver_merge(PVWdic, paramstring, popt) == MergeRoles(PVWdic, paramstring, popt, 1)

\* lines 329-343.  Returns the result and the dictionary object as left.
ReconstructLegendre(c, prep, popt, PVWdic0) ==
    LET PVWdic == driver_merge(PVWdic0, prep.paramstring, popt)
        normP == normP_driver(prep.paramstring)
        LCnew == TransformLegendreCoeffs(prep.LCRef, PVWdic, normP)
        pcov == IF c.cov THEN calculate_cov_matrix_fromscipylsq([x |-> popt])   \* lines 331-332
                ELSE NoPcov
    IN  [dic |-> PVWdic,
         ret |-> IF LCnew.raised # "none" THEN Raised(LCnew.raised)
                 ELSE Ret("returned", "none", ReturnFields(c.cov), popt, pcov,
                          legval(grid, LCnew), Recon(LCnew.vec, PVWdic, normP, LCnew))]

\* optimize.curve_fit (method 'lm'): raises RuntimeError("Optimal parameters
\* not found") when the minimisation ends without meeting its tolerance
curve_fit_result(status) == IF status = "not_converged" THEN "RuntimeError" ELSE "none"

\* variant raising on non-convergence as curve_fit does; C2 must tell it apart
least_squares_result_raising(status) == IF status = "not_converged" THEN "RuntimeError" ELSE "none"

\* optimize.least_squares: reports the termination in fitoutput['status']
\* and returns in either case
least_squares_result(status) == "none"

\* ------------------------------------------------------------------------
\* The inputs of the calls
\* ------------------------------------------------------------------------
MaxGuessLen == 3    \* longest initial_guess a caller supplies

Methods ==
    { <<"p", "0">>, <<"p", "2">>, <<"c", "1">>, <<"v">>, <<"x">>,
      <<"l", "p", "1">>, <<"l", "w", "0">>,
      <<"l", "v", "p", "2">>, <<"l", "p", "v", "w", "1">>,
      <<>>, <<"q", "1">>, <<"p">>, <<"v", "3">>,
      <<"l", "1">>, <<"l", "v">>, <<"l", "q", "1">> }

Guess(n) == [i \in 1..n |-> IF i = 1 \/ i = 3 THEN 1 ELSE 0]
Guesses == {Guess(n) : n \in 1..MaxGuessLen}

DefaultVals == {2}  \* the values of the entries of a caller's default map
RoleMaps == UNION {[D -> DefaultVals] : D \in {{}, {"w"}, Roles}}
IndexMaps == UNION {[D -> DefaultVals] : D \in {{0}, {2}, {3}}}

\* the caller's dictionary object: role names for the Legendre family,
\* coefficient indices for the others
CallerMaps ==
    {[kind |-> "role", role |-> m, index |-> EmptyDict] : m \in RoleMaps}
        \cup {[kind |-> "index", role |-> EmptyDict, index |-> m] : m \in IndexMaps}

ZeroPVW == [s \in Roles |-> 0]          \* line 306: {'v':0,'p':0,'w':0}

\* ------------------------------------------------------------------------
\* State
\* ------------------------------------------------------------------------
VARIABLES
    pc,          \* "idle", "optimizing" (inside curve_fit / least_squares), "done"
    call,        \* the arguments of the call in progress
    prep,        \* what the driver has computed before the optimizer
    callerMap,   \* the caller's dictionary object, kept across calls
    mapAtCall,   \* its content when the call began
    localDic,    \* the driver's own PVWdic when no map is supplied
    fit,         \* the optimizer: p0, best point, evaluations, last evaluation
    ret,         \* how the call ended
    ncalls,      \* calls made so far
    tin, tout, tmat   \* SpecLC: the inputs, the result, the matrix

dvars == <<pc, call, prep, callerMap, mapAtCall, localDic, fit, ret, ncalls>>
tvars == <<tin, tout, tmat>>
vars == <<pc, call, prep, callerMap, mapAtCall, localDic, fit, ret, ncalls, tin, tout, tmat>>

NoCall == [method |-> <<>>, hasGuess |-> FALSE, initial_guess |-> <<>>, cov |-> FALSE,
           passMap |-> FALSE, defaultParamDic |-> EmptyDict, scalepixel |-> TRUE]
NoMap == [kind |-> "none", role |-> EmptyDict, index |-> EmptyDict]
NoPrep == PrepError("none", "none")
NoFit == [p0 |-> <<>>, best |-> <<>>, nevals |-> 0, status |-> "none", last |-> NoEval]

SeqsUpTo(S, n) == UNION {[1..k -> S] : k \in 1..n}

TInputs ==
    [LC : SeqsUpTo(CoefVals, MaxLen), PVWdic : [Roles -> ShiftVals], normP : BOOLEAN]

NoOut == [applied |-> FALSE, mid |-> KeyErrorCV, T_LC |-> KeyErrorCV]
NoMat == [built |-> FALSE, TM |-> <<>>]
NoIn == [LC |-> <<0>>, PVWdic |-> ZeroPVW, normP |-> FALSE]

DriverIdle ==
    /\ pc = "idle"
    /\ call = NoCall
    /\ prep = NoPrep
    /\ mapAtCall = NoMap
    /\ localDic = EmptyDict
    /\ fit = NoFit
    /\ ret = NoRet
    /\ ncalls = 0

Init ==
    /\ DriverIdle
    /\ callerMap \in CallerMaps
    /\ tin = NoIn
    /\ tout = NoOut
    /\ tmat = NoMat

\* the dictionary object the Legendre objective and the driver share
PVWdicObject == IF call.passMap THEN callerMap.role ELSE localDic

\* ------------------------------------------------------------------------
\* Actions of the driver
\* ------------------------------------------------------------------------
\* The caller calls ReCalibrateDispersionSolution; the driver runs up to the
\* call of the optimizer (or to the exception that ends it before).
Call(method, hasGuess, guess, cov, passMap, scalepixel) ==
    /\ pc = "idle"
    /\ ncalls < MaxCalls
    /\ LET isL == method # <<>> /\ method[1] = "l"
           c == [method |-> method, hasGuess |-> hasGuess,
                 initial_guess |-> IF hasGuess THEN guess ELSE <<>>,
                 cov |-> cov, passMap |-> passMap,
                 defaultParamDic |-> IF passMap /\ ~isL THEN callerMap.index ELSE EmptyDict,
                 scalepixel |-> scalepixel]
           pr == Prepare(c)
       IN  /\ passMap => (callerMap.kind = IF isL THEN "role" ELSE "index")
           /\ (~scalepixel) => (method # <<>> /\ method[1] \in {"p", "c"})
           /\ (~hasGuess) => guess = Guess(1)
           /\ call' = c
           /\ prep' = pr
           /\ mapAtCall' = callerMap
           /\ localDic' = IF isL /\ ~passMap THEN ZeroPVW ELSE EmptyDict   \* lines 305-308
           /\ fit' = IF pr.err = "none"
                     THEN [p0 |-> pr.p0, best |-> pr.p0, nevals |-> 0,
                           status |-> "running", last |-> NoEval]
                     ELSE NoFit
           /\ ret' = IF pr.err = "none" THEN NoRet ELSE Raised(pr.err)
           /\ pc' = IF pr.err = "none" THEN "optimizing" ELSE "done"
    /\ ncalls' = ncalls + 1
    /\ UNCHANGED <<callerMap, tvars>>

\* The optimizer evaluates the objective: first at p0, then at trial points;
\* accept says whether the trial becomes its best point.  An exception of
\* the objective ends the call.
Evaluate(trial, accept) ==
    /\ pc = "optimizing"
    /\ fit.nevals <= MaxTrials
    /\ Len(trial) = Len(fit.p0)
    /\ (fit.nevals = 0) => (trial = [i \in 1..Len(fit.p0) |-> IF i = 1 THEN 1 ELSE 0] /\ accept)
    /\ LET isL == prep.family = "l"
           params == IF fit.nevals = 0 THEN fit.p0 ELSE trial
           le == errorfunc_tominimise(params, prep.paramstring, prep.LCRef, PVWdicObject)
           ev == IF isL THEN le.ev
                 ELSE transformed_spectrum(Ends(RefFlux), params, prep.family,
                                           FitCoords(call, prep.family),
                                           call.passMap, call.defaultParamDic)
       IN  /\ fit' = [fit EXCEPT !.nevals = @ + 1, !.last = ev,
                                 !.best = IF accept THEN params ELSE @,
                                 !.status = IF ev.raised = "none" THEN @ ELSE "raised"]
           /\ callerMap' = IF isL /\ call.passMap
                           THEN [callerMap EXCEPT !.role = le.dic] ELSE callerMap
           /\ localDic' = IF isL /\ ~call.passMap THEN le.dic ELSE localDic
           /\ ret' = IF ev.raised = "none" THEN ret ELSE Raised(ev.raised)
           /\ pc' = IF ev.raised = "none" THEN pc ELSE "done"
    /\ UNCHANGED <<call, prep, mapAtCall, ncalls, tvars>>

\* The optimizer ends, having met its tolerance or not, and the driver runs
\* on to its return statement.
Terminate(status) ==
    /\ pc = "optimizing"
    /\ fit.nevals >= 1
    /\ LET popt == fit.best
           isL == prep.family = "l"
           err == IF isL THEN least_squares_result(status) ELSE curve_fit_result(status)
           lr == ReconstructLegendre(call, prep, popt, PVWdicObject)
           r == IF err # "none" THEN Raised(err)
                ELSE CASE prep.family = "l" -> lr.ret
                       [] prep.family \in {"p", "c"} ->
                            ReconstructPoly(call, prep.family, prep.deg, popt)
                       [] prep.family = "v" -> ReconstructV(call, popt)
                       [] prep.family = "x" -> ReconstructX(call, popt)
       IN  /\ fit' = [fit EXCEPT !.status = status]
           /\ ret' = r
           /\ callerMap' = IF isL /\ err = "none" /\ call.passMap
                           THEN [callerMap EXCEPT !.role = lr.dic] ELSE callerMap
           /\ localDic' = IF isL /\ err = "none" /\ ~call.passMap THEN lr.dic ELSE localDic
    /\ pc' = "done"
    /\ UNCHANGED <<call, prep, mapAtCall, ncalls, tvars>>

\* The caller takes the result; nothing of the call is kept but the
\* caller's own dictionary.
Reset ==
    /\ pc = "done"
    /\ pc' = "idle"
    /\ call' = NoCall
    /\ prep' = NoPrep
    /\ mapAtCall' = NoMap
    /\ localDic' = EmptyDict
    /\ fit' = NoFit
    /\ ret' = NoRet
    /\ UNCHANGED <<callerMap, ncalls, tvars>>

\* trial points: the flux scale on FluxVals, every other parameter on ParamVals
Trials ==
    UNION {{t \in [1..n -> ParamVals \cup FluxVals] :
                t[1] \in FluxVals /\ \A i \in 2..n : t[i] \in ParamVals}
           : n \in 1..(MaxGuessLen + 1)}

Next ==
    \/ \E method \in Methods, hasGuess \in BOOLEAN, guess \in Guesses,
          cov \in BOOLEAN, passMap \in BOOLEAN, scalepixel \in BOOLEAN :
            Call(method, hasGuess, guess, cov, passMap, scalepixel)
    \/ \E trial \in Trials, accept \in BOOLEAN : Evaluate(trial, accept)
    \/ \E status \in {"converged", "not_converged"} : Terminate(status)
    \/ Reset

Spec == Init /\ [][Next]_vars

\* ------------------------------------------------------------------------
\* Pure-function specification: Init draws the inputs, the actions apply
\* TransformLegendreCoeffs and LCTransformMatrixP to them
\* ------------------------------------------------------------------------
InitLC ==
    /\ DriverIdle
    /\ callerMap = [kind |-> "role", role |-> ZeroPVW, index |-> EmptyDict]
    /\ tin \in TInputs
    /\ tout = NoOut
    /\ tmat = NoMat

ApplyTransform ==
    /\ ~tout.applied
    /\ tout' = [applied |-> TRUE,
                mid |-> PixelTransformed(tin.LC, tin.PVWdic, tin.normP),
                T_LC |-> TransformLegendreCoeffs(tin.LC, tin.PVWdic, tin.normP)]
    /\ UNCHANGED <<tin, tmat, dvars>>

\* the call of line 52: LCTransformMatrixP(p, deg=ldeg)
BuildMatrix ==
    /\ ~tmat.built
    /\ tmat' = [built |-> TRUE,
                TM |-> LCTransformMatrixP(tin.PVWdic["p"], Len(tin.LC) - 1)]
    /\ UNCHANGED <<tin, tout, dvars>>

NextLC == ApplyTransform \/ BuildMatrix

SpecLC == InitLC /\ [][NextLC]_vars

\* ------------------------------------------------------------------------
\* Vocabulary of the claims
\* ------------------------------------------------------------------------
\* the method-selector grammar: p<N>, c<N>, v, x, l<roles><N>
MatchesGrammar(m) ==
    /\ m # <<>>
    /\ \/ m[1] \in {"p", "c"} /\ isdigit(Tail(m))
       \/ m = <<"v">>
       \/ m = <<"x">>
       \/ /\ m[1] = "l"
          /\ \E k \in 1..(Len(m) - 2) :
                /\ \A i \in 2..(k + 1) : m[i] \in Roles
                /\ \A i, j \in 2..(k + 1) : i # j => m[i] # m[j]
                /\ isdigit(SubSeq(m, k + 2, Len(m)))

\* the role letters of a method string
FitsRole(m, r) == \E i \in 2..Len(m) : m[i] = r
NumRoles(m) == Cardinality({i \in 2..Len(m) : m[i] \in Roles})

\* the parameter count of a method of the grammar
ExpectedCount(m) ==
    IF m[1] \in {"p", "c"} THEN (IF int(Tail(m)) = 0 THEN 2 ELSE int(Tail(m)) + 2)
    ELSE IF m[1] = "v" THEN 2
    ELSE IF m[1] = "x" THEN 3
    ELSE 1 + NumRoles(m)

Returned == pc = "done" /\ ret.outcome = "returned"
LegendreCall == pc # "idle" /\ prep.family = "l"

\* ------------------------------------------------------------------------
\* C1: every method string outside the grammar ends the call in an error
\* before curve_fit or least_squares is invoked, and nothing is returned.
\* ------------------------------------------------------------------------
C1_InvalidMethodFailsFast ==
    (pc # "idle" /\ ~MatchesGrammar(call.method))
        => (~prep.invoked /\ (pc = "done" => ret.outcome = "error"))

C3_Expected(r, params) ==
    IF \E i \in 1..Len(prep.paramstring) : prep.paramstring[i] = r
    THEN params[1 + CHOOSE i \in 1..Len(prep.paramstring) : prep.paramstring[i] = r]
    ELSE IF call.passMap /\ r \in DOMAIN mapAtCall.role THEN mapAtCall.role[r]
    ELSE 0

C3_UnfitRolesDefault ==
    (LegendreCall /\ MatchesGrammar(call.method) /\ fit.nevals >= 1)
        => /\ fit.last.raised = "none"
           /\ \A r \in Roles : fit.last.pvw[r] = C3_Expected(r, fit.last.params)
           /\ Returned => \A r \in Roles : ret.recon.pvw[r] = C3_Expected(r, ret.popt)

\* ------------------------------------------------------------------------
\* C4: across calls only the caller's map carries over.  After a returned
\* Legendre call with a supplied map each fitted role's entry is the
\* returned fitted value and the other entries are as they were; without a
\* supplied map the call starts from a fresh all-zero role map and leaves
\* the caller's map alone; the other families never modify the map.
\* ------------------------------------------------------------------------
C4_MapCarriesFittedValues ==
    /\ (Returned /\ prep.family = "l" /\ call.passMap)
          => /\ \A i \in 1..Len(prep.paramstring) :
                   callerMap.role[prep.paramstring[i]] = ret.popt[i + 1]
             /\ \A r \in Roles :
                   ~InSeq(r, prep.paramstring)
                      => /\ (r \in DOMAIN callerMap.role) = (r \in DOMAIN mapAtCall.role)
                         /\ r \in DOMAIN callerMap.role
                               => callerMap.role[r] = mapAtCall.role[r]
             /\ callerMap.index = mapAtCall.index
    /\ (LegendreCall /\ ~call.passMap /\ pc = "optimizing" /\ fit.nevals = 0)
          => localDic = ZeroPVW
    /\ (pc # "idle" /\ (~call.passMap \/ prep.family # "l")) => callerMap = mapAtCall

C4_Witness ==
    /\ Returned /\ prep.family = "l" /\ call.passMap /\ ncalls = 2
    /\ fit.last.params # ret.popt
    /\ \E r \in Roles : ~InSeq(r, prep.paramstring) /\ r \in DOMAIN callerMap.role
    /\ callerMap # mapAtCall

\* ------------------------------------------------------------------------
\* C5: renormalisation is applied iff both p and v are fitted roles of the
\* method string, with the same decision in every objective evaluation and
\* in the reconstruction; default-map values of p or v never switch it on.
\* ------------------------------------------------------------------------
C5_BothFit == FitsRole(call.method, "p") /\ FitsRole(call.method, "v")

C5_RenormIffBothFit ==
    (LegendreCall /\ fit.nevals >= 1)
        => /\ fit.last.normP = C5_BothFit
           /\ Returned
                => /\ ret.recon.normP = C5_BothFit
                   /\ ret.recon.LCnew
                        = TransformLegendreCoeffs(prep.LCRef, ret.recon.pvw, C5_BothFit)

C5_Witness ==
    /\ Returned /\ prep.family = "l" /\ prep.paramstring = <<"w">>
    /\ ret.recon.pvw["p"] \in DefaultVals /\ ret.recon.pvw["v"] \in DefaultVals
    /\ ~ret.recon.normP /\ ~fit.last.normP /\ ret.recon.LCnew.num = ret.recon.LCnew.den

\* ------------------------------------------------------------------------
\* C6: TransformLegendreCoeffs(LC, {p:0,v:0,w:0}) returns, for every LC
\* (the all-zero vector included) and both settings of normP, a vector of
\* LC's length whose elements are exactly those of LC.
\* ------------------------------------------------------------------------
C6_IdentityExact ==
    (tout.applied /\ tin.PVWdic = ZeroPVW)
        => /\ tout.T_LC.raised = "none" /\ ~tout.T_LC.nan
           /\ Len(tout.T_LC.vec) = Len(tin.LC)
           /\ tout.T_LC.num = tout.T_LC.den
           /\ tout.T_LC.vec = tin.LC

\* ------------------------------------------------------------------------
\* C7: LCTransformMatrixP(p, deg=d) is (d+1)x(d+1) with TM[i,i] = 1,
\* TM[i,j] = p*(2i+1) for j > i with j-i odd, and 0 everywhere else.
\* ------------------------------------------------------------------------
C7_MatrixEntries ==
    tmat.built
        => LET d == Len(tin.LC) - 1
               p == tin.PVWdic["p"]
           IN  /\ DOMAIN tmat.TM = 0..d
               /\ \A i \in 0..d :
                    /\ DOMAIN tmat.TM[i] = 0..d
                    /\ \A j \in 0..d :
                         tmat.TM[i][j] = IF i = j THEN 1
                                         ELSE IF j > i /\ (j - i) % 2 = 1 THEN p * (2 * i + 1)
                                         ELSE 0

C7_Witness ==
    /\ tmat.built /\ Len(tin.LC) = MaxLen /\ tin.PVWdic["p"] = 1
    /\ tmat.TM[0][2] = 0 /\ tmat.TM[1][2] = 3 /\ tmat.TM[2][1] = 0

\* ------------------------------------------------------------------------
\* C8 as claimed: with the renormalisation on, for every LC and every w the
\* norm of the pixel-transformed coefficients (after the rescale, before
\* the velocity scaling) equals the norm of the input LC.
\* ------------------------------------------------------------------------
C8_NormOfInput ==
    (tout.applied /\ tin.normP)
        => /\ ~tout.mid.nan
           /\ NormSq(tout.mid.vec) * tout.mid.num = NormSq(tin.LC) * tout.mid.den

\* C8 as amended: the norm equals that of the wavelength-shifted
\* coefficients (LC with w added to its constant term), whenever that
\* shifted vector is not all zero.
C8_Shifted == [i \in 1..Len(tin.LC) |-> IF i = 1 THEN tin.LC[1] + tin.PVWdic["w"] ELSE tin.LC[i]]

C8_NormOfShifted ==
    (tout.applied /\ tin.normP /\ NormSq(C8_Shifted) # 0)
        => /\ ~tout.mid.nan
           /\ NormSq(tout.mid.vec) * tout.mid.num = NormSq(C8_Shifted) * tout.mid.den

C8_Witness ==
    /\ tout.applied /\ tin.normP /\ tin.PVWdic["w"] # 0 /\ tin.PVWdic["p"] # 0
    /\ NormSq(C8_Shifted) # 0
    /\ NormSq(C8_Shifted) # NormSq(tin.LC)
    /\ NormSq(tout.mid.vec) # NormSq(C8_Shifted)

\* ------------------------------------------------------------------------
\* C9: every resampling, in transformed_spectrum and in the Legendre
\* objective alike, returns the spline's boundary value for a target
\* outside the original domain; none extrapolates.
\* ------------------------------------------------------------------------
C9_Domain == IF prep.family = "l" THEN Ends(RefWavl) ELSE FitCoords(call, prep.family)

C9_BoundaryHeld ==
    (pc # "idle" /\ MatchesGrammar(call.method) /\ fit.nevals >= 1 /\ fit.last.raised = "none")
        => \A i \in 1..Len(fit.last.flux) :
              LET x == fit.last.Xtransformed[i]
                  f == fit.last.flux[i]
              IN  /\ f.kind # "extrapolated"
                  /\ (~x.nan /\ Below(x, C9_Domain[1]))
                        => f.kind = "boundary" /\ f.value = Ends(RefFlux)[1] * fit.last.params[1]
                  /\ (~x.nan /\ Above(x, C9_Domain[2]))
                        => f.kind = "boundary" /\ f.value = Ends(RefFlux)[2] * fit.last.params[1]

\* ------------------------------------------------------------------------
\* C10: a call whose initial guess has not the model's parameter count, or
\* whose default overrides name an index beyond it, fails with an error
\* before any numerical fitting work (no objective evaluation completes)
\* and returns nothing.
\* ------------------------------------------------------------------------
C10_Inconsistent ==
    /\ MatchesGrammar(call.method)
    /\ \/ call.hasGuess /\ Len(call.initial_guess) # ExpectedCount(call.method)
       \/ /\ call.passMap /\ prep.family # "l"
          /\ \E k \in DOMAIN call.defaultParamDic : k >= ExpectedCount(call.method) - 1

C10_CountMismatchFailsFast ==
    (pc # "idle" /\ C10_Inconsistent)
        => /\ fit.last.raised # "none"
           /\ ret.outcome # "returned"
           /\ pc = "done" => ret.outcome = "error"

\* ------------------------------------------------------------------------
\* C11: for every family and every default map, the transform the driver
\* uses to reconstruct the returned wavelength solution is the one the
\* objective applies at the returned parameter vector: the same effective
\* coefficients (after the overrides and the appended unit slope) and the
\* same transformed coordinates.  Stated for calls of the grammar whose
\* guess and override indices fit the model's parameter count.
\* ------------------------------------------------------------------------
C11_WellFormed ==
    /\ MatchesGrammar(call.method)
    /\ call.hasGuess => Len(call.initial_guess) = ExpectedCount(call.method)
    /\ (call.passMap /\ prep.family # "l")
          => \A k \in DOMAIN call.defaultParamDic : k < ExpectedCount(call.method) - 1

\* the objective of the call's family evaluated at the returned popt
C11_ObjectiveAtPopt ==
    IF prep.family = "l"
    THEN errorfunc_tominimise(ret.popt, prep.paramstring, prep.LCRef, PVWdicObject).ev
    ELSE transformed_spectrum(Ends(RefFlux), ret.popt, prep.family,
                              FitCoords(call, prep.family),
                              call.passMap, call.defaultParamDic)

C11_SameTransform ==
    (Returned /\ C11_WellFormed)
        => LET ev == C11_ObjectiveAtPopt
           IN  /\ ev.raised = "none"
               /\ prep.family \in {"p", "c"}
                     => /\ ev.coeffs = ret.recon.coeffs
                        /\ \A i \in 1..2 :
                             ret.wavl_sln[i] =
                                IF call.scalepixel
                                THEN Coord(scale_interval_m1top1(ev.Xtransformed[i].val,
                                               min(RefWavl), max(RefWavl), TRUE), 0, 1)
                                ELSE ev.Xtransformed[i]
               /\ prep.family \in {"v", "x"} => ret.wavl_sln = ev.Xtransformed
               /\ prep.family = "l"
                     => /\ ev.coeffs = ret.recon.coeffs
                        /\ ev.pvw = ret.recon.pvw
                        /\ ev.normP = ret.recon.normP
                        /\ ret.wavl_sln = ev.Xtransformed

=============================================================================
